---- MODULE Spec2Model ----
(***************************************************************************)
(* The WebSocket client subsystem of imgui-react-runtime                   *)
(* (lib/imgui-runtime/WebSocketSupport.cpp): WebSocketInstance, the        *)
(* WebSocketManager singleton, the host object seen by scripted code and   *)
(* the libwebsockets connection each Instance drives.                      *)
(*                                                                         *)
(* An Instance, its transport connection and the record of what it has     *)
(* dispatched and written form one "cell"; every method of the source is   *)
(* an operator from cells to cells, and the actions apply them.            *)
(***************************************************************************)
EXTENDS Integers, Sequences, FiniteSets, TLC

\* ------------------------------------------------------------- bounds

\* initialize() calls that find no context, each creating one, in one run.
MaxInits == 1
\* Payloads send() accepts on one Instance in one run.
MaxSend == 2
\* Message events dispatched to one Instance in one run.
MaxMessages == 2

\* ------------------------------------------------- program constants

kDefaultCloseCode == 1000
kMinCloseCode == 1000
kMaxCloseCode == 4999
kAbnormalCloseCode == 1006
kShutdownCloseCode == 1001
kNoStatusCloseCode == 1005
kUint16Modulus == 65536

kShutdownReason == "runtime shutdown"
kWriteFailed == "WebSocket write failed"
kDefaultError == "WebSocket connection error"

\* ---------------------------------------------------------- universes

\* The identities an Instance (and its lws connection) can have, and the ones
\* the constructor hands out under Spec: its properties are those of one
\* Instance, and Instances share no state but the registry.
Ids == {1, 2}
SpecIds == {1}
NULL == 0

Connecting == "Connecting"
Open == "Open"
Closing == "Closing"
Closed == "Closed"
ReadyState == {Connecting, Open, Closing, Closed}

\* enum class ReadyState { Connecting = 0, Open = 1, Closing = 2, Closed = 3 }
readyStateAsInt(s) ==
    CASE s = Connecting -> 0
      [] s = Open -> 1
      [] s = Closing -> 2
      [] s = Closed -> 3

NoHandler == "none"
Handlers == {"f"}
\* Handlers whose call throws, a second function that returns, and everything
\* setHandler() takes for a function.
Throwers == {"t"}
OtherHandlers == {"g"}
Functions == Handlers \cup Throwers \cup OtherHandlers

\* What scripted code passes to send(): strings, the k-th call that passes one
\* passing the k-th of them, and one value that is not a string.
PayloadSeq == <<"a", "b", "c", "d">>
Payloads == {PayloadSeq[k] : k \in 1..Len(PayloadSeq)}
NonString == "<number>"
SendValues(accepted) == {PayloadSeq[Len(accepted) + 1], NonString}

\* What scripted code passes to close(): count arguments, a number first and a
\* string second.
CloseArgs ==
    { [count |-> 0, code |-> 0, reason |-> ""],
      [count |-> 1, code |-> 3001, reason |-> ""],
      [count |-> 2, code |-> 7000, reason |-> "bye"] }

\* Numbers scripted code passes to close() that uint16_t cannot hold.
WideCloseArgs ==
    { [count |-> 1, code |-> 70000, reason |-> ""],
      [count |-> 1, code |-> 0 - 1, reason |-> ""] }

\* What scripted code assigns to a handler slot.
Undefined == "<undefined>"
NotAFunction == "<not a function>"
SlotValues == Handlers \cup {Undefined, NotAFunction}
Slots == {"onOpen_", "onMessage_", "onClose_", "onError_"}
\* The slots scripted code assigns under Spec.
CoreSlots == {"onClose_", "onError_"}

\* What the transport reports.
ErrorMessages == {"", "refused"}
\* A peer's close frame: len bytes of payload, the code in the first two.
PeerCloses ==
    { [len |-> 5, code |-> 1001, reason |-> "bye"],
      [len |-> 0, code |-> 0, reason |-> ""] }
Messages == {"", "m"}

\* What scripted code passes to the WebSocket constructor, as character sequences:
\* "ws://h:8/p", "ws://h", "wss://h", "http://h", "ws://:8".
Urls ==
    { <<"w","s",":","/","/","h",":","8","/","p">>,
      <<"w","s",":","/","/","h">>,
      <<"w","s","s",":","/","/","h">>,
      <<"h","t","t","p",":","/","/","h">>,
      <<"w","s",":","/","/",":","8">> }

\* The URLs the parser is checked on: a scheme, a host, a port part and a path,
\* each from a few texts, concatenated.
UrlSchemes ==
    { <<"w","s",":","/","/">>, <<"w","s","s",":","/","/">>,
      <<"h","t","t","p",":","/","/">>, <<"w","s",":","/">> }
UrlHosts == { <<>>, <<"h">>, <<"h",":","i">> }
UrlPorts ==
    { <<>>, <<":">>, <<":","8">>, <<":","8","0">>, <<":","0","8">>, <<":","8","x">>,
      <<":","x">>, <<":","-","1">>, <<":","+","8">>, <<":"," ","8">>,
      <<":","7","0","0","0","0">>,
      <<":","2","1","4","7","4","8","3","6","4","8">> }
UrlPaths == { <<>>, <<"/","p",":","9","/","q">> }
ParseUrls ==
    { sc \o h \o po \o pa :
        sc \in UrlSchemes, h \in UrlHosts, po \in UrlPorts, pa \in UrlPaths }

\* lws connection states: the connection does not exist, is being set up, is
\* established, has reported the peer's close, has failed a write, is forgotten.
TNone == "none"
TConnecting == "connecting"
TEstablished == "established"
TPeerClosing == "peerclosing"
TFailed == "failed"
TGone == "gone"

VARIABLES
    context_,         \* WebSocketManager::context_ is non-null
    runtime_,         \* WebSocketManager::runtime_ is non-null
    instances_,       \* WebSocketManager::instances_, the weak references
    globalWebSocket,  \* the global object has the WebSocket constructor
    initCalls,        \* initialize() calls that installed the constructor
    cells,            \* per Instance: its fields, its lws connection, its record
    pc,               \* "idle", or "service" inside lws_service() of pump()
    lastOp            \* the operation that ran last and how it returned

vars == <<context_, runtime_, instances_, globalWebSocket, initCalls, cells, pc, lastOp>>

\* --------------------------------------------------------------- cells

\* WebSocketInstance's members as its constructor leaves them.
NewInstance ==
    [ state_ |-> Connecting,
      wsi_ |-> NULL,
      outbound_ |-> <<>>,
      onOpen_ |-> NoHandler,
      onMessage_ |-> NoHandler,
      onClose_ |-> NoHandler,
      onError_ |-> NoHandler,
      closeReason_ |-> "",
      closeCode_ |-> kDefaultCloseCode,
      peerInitiatedClose_ |-> FALSE,
      closeDispatched_ |-> FALSE ]

\* The lws side of one connection (struct lws): its state, whether a writable
\* callback is requested, its opaque user data, the close reason lws_close_reason
\* stored, and whether lws was told to close it (a callback returned non-zero).
NewConn ==
    [ tstate |-> TNone,
      writable |-> FALSE,
      userData |-> NULL,
      closeReasonSet |-> FALSE,
      closeRequested |-> FALSE ]

\* The record kept for the properties: events handed to handlers, payloads
\* send() accepted and how many of them while Connecting, payloads lws_write()
\* wrote, lws_write() calls of the last callback, the arguments of the last
\* close() that took effect, the last close frame the peer sent and the
\* readyState it met, the handler exceptions dispatch() caught and printed,
\* what scripted code passed to the last close() that took effect, and the
\* function each event was handed to.
NewLog ==
    [ events |-> <<>>,
      calls |-> <<>>,
      caught |-> 0,
      closeArgs |-> [count |-> 0, code |-> 0, reason |-> ""],
      accepted |-> <<>>,
      early |-> 0,
      written |-> <<>>,
      writes |-> 0,
      localClose |-> [code |-> 0, reason |-> ""],
      peerClose |-> [in |-> [len |-> 0, code |-> 0, reason |-> ""], pre |-> "-"] ]

\* ret is what the running method raised ("" when it returned normally); it is
\* cleared when the cell is stored.
NoCell ==
    [ exists |-> FALSE, alive |-> FALSE, inst |-> NewInstance, conn |-> NewConn, log |-> NewLog, ret |-> "" ]

Event(type, data, code, wasClean) ==
    [ type |-> type, data |-> data, code |-> code, wasClean |-> wasClean ]

OpenEvent == Event("open", "", 0, FALSE)
MessageEvent(data) == Event("message", data, 0, FALSE)
ErrorEvent(message) == Event("error", message, 0, FALSE)
CloseEvent(code, reason, wasClean) == Event("close", reason, code, wasClean)

\* ------------------------------------------------- libwebsockets calls

\* lws_callback_on_writable(wsi): lws remembers that a writable callback is wanted.
lws_callback_on_writable(c) ==
    [c EXCEPT !.conn.writable = TRUE]

\* lws_close_reason(wsi, status, buf, len): lws stores the reason it would send
\* if a callback asked it to close the connection by returning non-zero; the
\* call itself closes nothing.
lws_close_reason(c) ==
    [c EXCEPT !.conn.closeReasonSet = TRUE]

\* lws_write(wsi, buf, len, LWS_WRITE_TEXT) of the payload p: with ok the frame
\* goes out; otherwise lws returns a negative value and the connection is unusable.
lws_write(c, p, ok) ==
    IF ok
    THEN [c EXCEPT !.log.written = Append(@, p), !.log.writes = @ + 1]
    ELSE [c EXCEPT !.log.writes = @ + 1, !.conn.tstate = TFailed]

\* ------------------------------------------------- WebSocketInstance

Throw(c, err) == [c EXCEPT !.ret = err]

\* dispatch() without the try block: what the handler throws leaves dispatch().
dispatch_noCatch(c, slot, ev) ==
    IF c.inst[slot] = NoHandler
    THEN c
    ELSE LET called == [c EXCEPT !.log.events = Append(@, ev),
                                 !.log.calls = Append(@, c.inst[slot])]
         IN  IF c.inst[slot] \in Throwers
             THEN Throw(called, "JSError: thrown by the handler")
             ELSE called

\* dispatch(handler, args): no handler, no call; a handler is called with the
\* event, and what it throws (a JSIException) is caught and printed.
dispatch(c, slot, ev) ==
    IF c.inst[slot] = NoHandler
    THEN c
    ELSE LET called == [c EXCEPT !.log.events = Append(@, ev),
                                 !.log.calls = Append(@, c.inst[slot])]
         IN  IF c.inst[slot] \in Throwers
             THEN [called EXCEPT !.log.caught = @ + 1]
             ELSE called

dispatchMessageToJs(c, message) ==
    IF c.inst.onMessage_ = NoHandler
    THEN c
    ELSE dispatch(c, "onMessage_", MessageEvent(message))

dispatchCloseToJs(c, code, reason, wasClean) ==
    IF c.inst.onClose_ = NoHandler
    THEN [c EXCEPT !.inst.closeDispatched_ = TRUE]
    ELSE [dispatch(c, "onClose_", CloseEvent(code, reason, wasClean))
             EXCEPT !.inst.closeDispatched_ = TRUE]

dispatchErrorToJs(c, message) ==
    IF c.inst.onError_ = NoHandler
    THEN c
    ELSE dispatch(c, "onError_", ErrorEvent(message))

transitionToClosed(c, code, reason, wasClean) ==
    IF c.inst.state_ = Closed
    THEN c
    ELSE dispatchCloseToJs([c EXCEPT !.inst.state_ = Closed], code, reason, wasClean)

\* handleConnected() that asks for no writable callback.
handleConnected_noRequest(c, wsi) ==
    dispatch([c EXCEPT !.inst.wsi_ = wsi, !.inst.state_ = Open], "onOpen_", OpenEvent)

\* handleConnected(wsi): wsi is the connection reporting, the cell's own.
handleConnected(c, wsi) ==
    LET c1 == [c EXCEPT !.inst.wsi_ = wsi, !.inst.state_ = Open]
        c2 == dispatch(c1, "onOpen_", OpenEvent)
    IN  IF c2.inst.outbound_ # <<>>
        THEN lws_callback_on_writable(c2)
        ELSE c2

\* handleMessage(data, len): data is the payload, "" when there is none.
handleMessage(c, data) ==
    IF data = ""
    THEN c
    ELSE dispatchMessageToJs(c, data)

handleError(c, message) ==
    LET c1 == dispatchErrorToJs(c, IF message = "" THEN kDefaultError ELSE message)
    IN  transitionToClosed(c1, kAbnormalCloseCode, message, FALSE)

\* handleWritable() taking the frame from the back of the queue.
handleWritable_back(c, ok) ==
    IF c.inst.wsi_ = NULL \/ c.inst.outbound_ = <<>>
    THEN c
    ELSE LET n == Len(c.inst.outbound_)
             c1 == lws_write(c, c.inst.outbound_[n], ok)
         IN  IF ~ok
             THEN handleError(c1, kWriteFailed)
             ELSE LET c2 == [c1 EXCEPT !.inst.outbound_ = SubSeq(@, 1, n - 1)]
                  IN  IF c2.inst.outbound_ # <<>>
                      THEN lws_callback_on_writable(c2)
                      ELSE c2

\* handleWritable() writing every queued frame in one callback.
handleWritable_drain(c, ok) ==
    IF c.inst.wsi_ = NULL \/ c.inst.outbound_ = <<>>
    THEN c
    ELSE IF ~ok
    THEN handleError(lws_write(c, Head(c.inst.outbound_), ok), kWriteFailed)
    ELSE [c EXCEPT !.log.written = @ \o c.inst.outbound_,
                   !.log.writes = Len(c.inst.outbound_),
                   !.inst.outbound_ = <<>>]

\* handleWritable(): ok is whether lws_write() succeeds.
handleWritable(c, ok) ==
    IF c.inst.wsi_ = NULL \/ c.inst.outbound_ = <<>>
    THEN c
    ELSE LET c1 == lws_write(c, Head(c.inst.outbound_), ok)
         IN  IF ~ok
             THEN handleError(c1, kWriteFailed)
             ELSE LET c2 == [c1 EXCEPT !.inst.outbound_ = Tail(@)]
                  IN  IF c2.inst.outbound_ # <<>>
                      THEN lws_callback_on_writable(c2)
                      ELSE c2

\* handlePeerInitiatedClose() that does not record the peer's code.
handlePeerInitiatedClose_noCode(c, code, reason) ==
    [c EXCEPT !.inst.peerInitiatedClose_ = TRUE,
              !.inst.closeReason_ = reason,
              !.inst.state_ = Closing]

handlePeerInitiatedClose(c, code, reason) ==
    [c EXCEPT !.inst.peerInitiatedClose_ = TRUE,
              !.inst.closeCode_ = code,
              !.inst.closeReason_ = reason,
              !.inst.state_ = Closing]

\* handleClosed() for which only a peer's close is clean.
handleClosed_peerOnly(c) ==
    IF c.inst.state_ = Closed
    THEN c
    ELSE LET wasClean == c.inst.peerInitiatedClose_
             c1 == [c EXCEPT !.inst.wsi_ = NULL]
         IN  transitionToClosed(c1, c.inst.closeCode_, c.inst.closeReason_, wasClean)

handleClosed(c) ==
    IF c.inst.state_ = Closed
    THEN c
    ELSE LET wasClean == c.inst.peerInitiatedClose_ \/ c.inst.state_ = Closing
             c1 == [c EXCEPT !.inst.wsi_ = NULL]
         IN  transitionToClosed(c1, c.inst.closeCode_, c.inst.closeReason_, wasClean)

\* send() without the readyState check.
send_anyState(c, value) ==
    IF value \notin Payloads
    THEN Throw(c, "JSError: send supports only string data")
    ELSE LET c1 == [c EXCEPT !.inst.outbound_ = Append(@, value),
                             !.log.accepted = Append(@, value),
                             !.log.early = IF c.inst.state_ = Connecting THEN @ + 1 ELSE @]
         IN  IF c1.inst.wsi_ # NULL
             THEN lws_callback_on_writable(c1)
             ELSE c1

\* send() putting the frame at the head of the queue.
send_front(c, value) ==
    IF value \notin Payloads
    THEN Throw(c, "JSError: send supports only string data")
    ELSE IF c.inst.state_ # Open /\ c.inst.state_ # Connecting
    THEN Throw(c, "JSError: WebSocket is not open")
    ELSE LET c1 == [c EXCEPT !.inst.outbound_ = <<value>> \o @,
                             !.log.accepted = Append(@, value),
                             !.log.early = IF c.inst.state_ = Connecting THEN @ + 1 ELSE @]
         IN  IF c1.inst.wsi_ # NULL
             THEN lws_callback_on_writable(c1)
             ELSE c1

\* send(rt, value)
send(c, value) ==
    IF value \notin Payloads
    THEN Throw(c, "JSError: send supports only string data")
    ELSE IF c.inst.state_ # Open /\ c.inst.state_ # Connecting
    THEN Throw(c, "JSError: WebSocket is not open")
    ELSE LET c1 == [c EXCEPT !.inst.outbound_ = Append(@, value),
                             !.log.accepted = Append(@, value),
                             !.log.early = IF c.inst.state_ = Connecting THEN @ + 1 ELSE @]
         IN  IF c1.inst.wsi_ # NULL
             THEN lws_callback_on_writable(c1)
             ELSE c1

\* The range check of close(): a code outside [1000, 4999] becomes 1000.
ClampCode(code) ==
    IF code < kMinCloseCode \/ code > kMaxCloseCode THEN kDefaultCloseCode ELSE code

\* close() without the early return for Closing and Closed.
close_noGuard(c, code, reason) ==
    LET cc == ClampCode(code)
        c1 == [c EXCEPT !.inst.closeCode_ = cc,
                        !.inst.closeReason_ = reason,
                        !.inst.state_ = Closing,
                        !.inst.peerInitiatedClose_ = FALSE,
                        !.log.localClose = [code |-> code, reason |-> reason]]
    IN  IF c1.inst.wsi_ # NULL
        THEN lws_callback_on_writable(lws_close_reason(c1))
        ELSE transitionToClosed(c1, cc, reason, TRUE)

\* close() whose early return covers Closed only.
close_closedOnly(c, code, reason) ==
    IF c.inst.state_ = Closed
    THEN c
    ELSE close_noGuard(c, code, reason)

\* close(code, reason): code is the uint16_t the caller passes.
close(c, code, reason) ==
    IF c.inst.state_ = Closed \/ c.inst.state_ = Closing
    THEN c
    ELSE LET cc == ClampCode(code)
             c1 == [c EXCEPT !.inst.closeCode_ = cc,
                             !.inst.closeReason_ = reason,
                             !.inst.state_ = Closing,
                             !.inst.peerInitiatedClose_ = FALSE,
                             !.log.localClose = [code |-> code, reason |-> reason]]
         IN  IF c1.inst.wsi_ # NULL
             THEN lws_callback_on_writable(lws_close_reason(c1))
             ELSE transitionToClosed(c1, cc, reason, TRUE)

\* setHandler() that keeps a handler already in the slot.
setHandler_keepFirst(c, slot, value) ==
    IF value = Undefined
    THEN [c EXCEPT !.inst[slot] = NoHandler]
    ELSE IF value \notin Functions
    THEN Throw(c, "JSError: must be a function")
    ELSE IF c.inst[slot] # NoHandler
    THEN c
    ELSE [c EXCEPT !.inst[slot] = value]

\* setHandler(rt, value, slot, name)
setHandler(c, slot, value) ==
    IF value = Undefined
    THEN [c EXCEPT !.inst[slot] = NoHandler]
    ELSE IF value \notin Functions
    THEN Throw(c, "JSError: must be a function")
    ELSE [c EXCEPT !.inst[slot] = value]

\* ------------------------------------------------------------ parseUrl

Digits == <<"0", "1", "2", "3", "4", "5", "6", "7", "8", "9">>
IsDigit(ch) == \E k \in 1..10 : Digits[k] = ch
DigitValue(ch) == (CHOOSE k \in 1..10 : Digits[k] = ch) - 1
IsSpace(ch) == ch = " "
kIntMax == 2147483647

\* s.rfind(prefix, 0) == 0
StartsWith(s, prefix) ==
    Len(s) >= Len(prefix) /\ SubSeq(s, 1, Len(prefix)) = prefix

\* s.find(ch) and s.rfind(ch) as 1-based positions, 0 for npos.
Find(s, ch) ==
    IF \E k \in 1..Len(s) : s[k] = ch
    THEN CHOOSE k \in 1..Len(s) : s[k] = ch /\ \A j \in 1..(k - 1) : s[j] # ch
    ELSE 0

RFind(s, ch) ==
    IF \E k \in 1..Len(s) : s[k] = ch
    THEN CHOOSE k \in 1..Len(s) : s[k] = ch /\ \A j \in (k + 1)..Len(s) : s[j] # ch
    ELSE 0

\* s.substr(pos) with pos 1-based.
Substr(s, pos) == SubSeq(s, pos, Len(s))

RECURSIVE SkipSpaces(_)
SkipSpaces(s) ==
    IF s # <<>> /\ IsSpace(Head(s)) THEN SkipSpaces(Tail(s)) ELSE s

\* The value of the longest digit prefix of s after acc, -1 once it exceeds INT_MAX.
RECURSIVE DigitPrefix(_, _)
DigitPrefix(s, acc) ==
    IF s = <<>> \/ ~IsDigit(Head(s))
    THEN acc
    ELSE LET d == DigitValue(Head(s))
         IN  IF acc > (kIntMax - d) \div 10
             THEN -1
             ELSE DigitPrefix(Tail(s), acc * 10 + d)

\* std::stoi(str): leading whitespace and one sign are skipped, the digits that
\* follow are converted and whatever follows them is ignored; no digit or a value
\* outside int throws.
stoi(str) ==
    LET t == SkipSpaces(str)
        neg == t # <<>> /\ Head(t) = "-"
        u == IF t # <<>> /\ Head(t) \in {"-", "+"} THEN Tail(t) ELSE t
        v == DigitPrefix(u, 0)
    IN  IF u = <<>> \/ ~IsDigit(Head(u)) \/ v < 0
        THEN [ok |-> FALSE, value |-> 0]
        ELSE [ok |-> TRUE, value |-> IF neg THEN 0 - v ELSE v]

\* struct ParsedUrl as its member initializers leave it, with ok FALSE.
NoParsedUrl ==
    [ok |-> FALSE, secure |-> FALSE, address |-> <<>>, port |-> 0,
     path |-> <<>>, hostHeader |-> <<>>]

\* parseUrl(url): ok is FALSE where the source throws std::runtime_error.
parseUrl(url) ==
    LET ws == <<"w", "s", ":", "/", "/">>
        wss == <<"w", "s", "s", ":", "/", "/">>
        bad == NoParsedUrl
    IN  IF ~StartsWith(url, ws) /\ ~StartsWith(url, wss)
        THEN bad
        ELSE
        LET secure == ~StartsWith(url, ws)
            defaultPort == IF secure THEN 443 ELSE 80
            rest == IF secure THEN Substr(url, 7) ELSE Substr(url, 6)
            slashPos == Find(rest, "/")
            authority == IF slashPos = 0 THEN rest ELSE SubSeq(rest, 1, slashPos - 1)
            path == IF slashPos = 0 THEN <<"/">> ELSE Substr(rest, slashPos)
            colonPos == RFind(authority, ":")
            address == IF colonPos # 0 THEN SubSeq(authority, 1, colonPos - 1) ELSE authority
            portStr == IF colonPos # 0 THEN Substr(authority, colonPos + 1) ELSE <<>>
            num == stoi(portStr)
        IN  IF authority = <<>>
            THEN bad
            ELSE IF colonPos # 0 /\ (portStr = <<>> \/ ~num.ok)
            THEN bad
            ELSE IF address = <<>>
            THEN bad
            ELSE [ok |-> TRUE, secure |-> secure, address |-> address,
                  port |-> IF colonPos # 0 THEN num.value ELSE defaultPort,
                  path |-> IF path = <<>> THEN <<"/">> ELSE path,
                  hostHeader |-> authority]

\* ----------------------------------------------------- connect, callback

\* connect() that takes the connection for established as soon as lws returns it.
connect_open(c, id, url, haveContext, connectOk) ==
    IF ~parseUrl(url).ok \/ parseUrl(url).secure \/ ~haveContext \/ ~connectOk
    THEN Throw(c, "JSError: Failed to initiate WebSocket connection")
    ELSE [c EXCEPT !.inst.wsi_ = id,
                   !.inst.state_ = Open,
                   !.conn.tstate = TConnecting,
                   !.conn.userData = id]

\* connect() of the Instance in cell c with identity id: haveContext is
\* WebSocketManager::get().context(), connectOk whether
\* lws_client_connect_via_info() returns a connection.
connect(c, id, url, haveContext, connectOk) ==
    LET parsed == parseUrl(url)
    IN  IF ~parsed.ok
        THEN Throw(c, "runtime_error: bad WebSocket URL")
        ELSE IF parsed.secure
        THEN Throw(c, "JSError: wss:// URLs are not supported in this build")
        ELSE IF ~haveContext
        THEN Throw(c, "JSError: WebSocket context unavailable")
        ELSE IF ~connectOk
        THEN Throw(c, "JSError: Failed to initiate WebSocket connection")
        ELSE [c EXCEPT !.inst.wsi_ = id,
                       !.conn.tstate = TConnecting,
                       !.conn.userData = id]

\* The value websocketCallback returns to lws; non-zero would ask lws to close
\* the connection.
callbackReturn == 0

\* websocketCallback(wsi, reason, user, in, len) for the connection of cell c,
\* whose opaque user data is the cell's own Instance or NULL.
websocketCallback(c, reason, in) ==
    LET r ==
        IF c.conn.userData = NULL
        THEN c
        ELSE CASE reason = "CLIENT_ESTABLISHED" -> handleConnected(c, c.conn.userData)
               [] reason = "CLIENT_RECEIVE" -> handleMessage(c, in)
               [] reason = "CLIENT_WRITEABLE" -> handleWritable(c, in)
               [] reason = "CLIENT_CONNECTION_ERROR" -> handleError(c, in)
               [] reason = "CLIENT_CLOSED" -> handleClosed(c)
               [] reason = "WS_PEER_INITIATED_CLOSE" ->
                    IF in.len >= 2
                    THEN handlePeerInitiatedClose(c, in.code, in.reason)
                    ELSE handlePeerInitiatedClose(c, kNoStatusCloseCode, "")
               [] OTHER -> c
    IN  [r EXCEPT !.conn.closeRequested = @ \/ callbackReturn # 0]

\* ------------------------------------------------------- host object

\* The narrowing of a number uint16_t cannot hold, as builds that convert
\* through a wider integer do it.
ToUint16(n) == n % kUint16Modulus

\* static_cast<uint16_t>(args[0].asNumber()): the number when uint16_t holds it.
\* Otherwise the conversion is undefined: builds wrap around or saturate.
Uint16Outcomes(n) ==
    IF n >= 0 /\ n < kUint16Modulus
    THEN {n}
    ELSE {ToUint16(n), IF n < 0 THEN 0 ELSE kUint16Modulus - 1}

\* The close function of WebSocketHostObject::get: the arguments become the
\* code and the reason close() gets.
hostCloseCodes(args) ==
    IF args.count >= 1 THEN Uint16Outcomes(args.code) ELSE {kDefaultCloseCode}
hostCloseReason(args) == IF args.count >= 2 THEN args.reason ELSE ""

\* ----------------------------------------------------------- manager

\* cleanupExpired() that prunes nothing.
cleanupExpired_keepAll(refs, cs) == refs

\* cleanupExpired(): the weak references that still lock stay, in order.
cleanupExpired(refs, cs) == SelectSeq(refs, LAMBDA i : cs[i].alive)

Registered(i) == \E k \in 1..Len(instances_) : instances_[k] = i

LiveT == {TConnecting, TEstablished, TPeerClosing, TFailed}

\* lws_context_destroy() seen from one connection: lws forgets it, and with
\* deliver it first makes the last callback of that connection (a connection
\* error before it is established, closed after).
lws_context_destroy(c, deliver, msg) ==
    IF c.conn.tstate \notin LiveT
    THEN c
    ELSE LET was == c.conn.tstate
             c1 == [c EXCEPT !.conn.tstate = TGone, !.conn.writable = FALSE]
         IN  IF ~deliver
             THEN c1
             ELSE IF was = TConnecting
             THEN websocketCallback(c1, "CLIENT_CONNECTION_ERROR", msg)
             ELSE websocketCallback(c1, "CLIENT_CLOSED", "")

\* shutdown() that destroys the context without closing the Instances.
shutdownCell_noClose(c, registered, deliver, msg) ==
    lws_context_destroy([c EXCEPT !.log.writes = 0], deliver, msg)

\* shutdown() seen from one cell: the forced close when its weak reference is
\* registered and locks, then the destruction of the context.
shutdownCell(c, registered, deliver, msg) ==
    LET c1 == IF registered /\ c.alive
              THEN close(c, kShutdownCloseCode, kShutdownReason)
              ELSE c
    IN  lws_context_destroy([c1 EXCEPT !.log.writes = 0], deliver, msg)

\* ------------------------------------------------------------- actions

\* arg is the URL createInstance() was given and out what parseUrl() made of it
\* in connect(); they are empty for every other operation.
Op(op, id, pre, ret) ==
    [op |-> op, id |-> id, pre |-> pre, ret |-> ret, arg |-> <<>>, out |-> NoParsedUrl]

Stored(c) == [c EXCEPT !.ret = ""]

\* Whether the operation starts with a transport context.
CtxPre == IF context_ THEN "context" ELSE "no context"

Init ==
    /\ context_ = FALSE
    /\ runtime_ = FALSE
    /\ instances_ = <<>>
    /\ globalWebSocket = FALSE
    /\ initCalls = 0
    /\ cells = [i \in Ids |-> NoCell]
    /\ pc = "idle"
    /\ lastOp = Op("none", NULL, "-", "")

\* WebSocketManager::initialize(runtime): created is whether lws_create_context()
\* returns a context.
initialize(created) ==
    /\ pc = "idle"
    /\ context_ \/ initCalls < MaxInits
    /\ IF context_
       THEN UNCHANGED <<context_, runtime_, globalWebSocket, initCalls>>
       ELSE /\ runtime_' = TRUE
            /\ context_' = created
            /\ globalWebSocket' = TRUE
            /\ initCalls' = initCalls + 1
    /\ lastOp' = Op("initialize", NULL, CtxPre, "")
    /\ UNCHANGED <<instances_, cells, pc>>

\* Scripted code reaches the constructor on the global object, or holds a
\* reference to it from the time it was there.
ScriptHasCtor == globalWebSocket \/ initCalls > 0

\* createInstance() that registers the Instance before connect() is tried.
createInstance_registerFirst(url, connectOk, ids) ==
    /\ pc = "idle"
    /\ ScriptHasCtor
    /\ runtime_
    /\ \E i \in ids :
         /\ ~cells[i].exists
         /\ \A j \in ids : j < i => cells[j].exists
         /\ LET c0 == [NoCell EXCEPT !.exists = TRUE, !.alive = TRUE]
                c1 == connect(c0, i, url, context_, connectOk)
            IN  /\ lastOp' = [Op("createInstance", IF c1.ret = "" THEN i ELSE NULL,
                                  CtxPre, c1.ret) EXCEPT !.arg = url, !.out = parseUrl(url)]
                /\ instances_' = Append(instances_, i)
                /\ cells' = [cells EXCEPT ![i] = Stored(c1)]
    /\ UNCHANGED <<context_, runtime_, globalWebSocket, initCalls, pc>>

\* WebSocketManager::createInstance(url), reached through the constructor; ids
\* are the identities the new Instance can get.
createInstance(url, connectOk, ids) ==
    /\ pc = "idle"
    /\ ScriptHasCtor
    /\ IF ~runtime_
       THEN /\ lastOp' = [Op("createInstance", NULL, CtxPre,
                             "runtime_error: WebSocket runtime is not initialized")
                             EXCEPT !.arg = url]
            /\ UNCHANGED <<instances_, cells>>
       ELSE \E i \in ids :
            /\ ~cells[i].exists
            /\ \A j \in ids : j < i => cells[j].exists
            /\ LET c0 == [NoCell EXCEPT !.exists = TRUE, !.alive = TRUE]
                   c1 == connect(c0, i, url, context_, connectOk)
               IN  IF c1.ret # ""
                   THEN /\ lastOp' = [Op("createInstance", NULL, CtxPre, c1.ret)
                                         EXCEPT !.arg = url, !.out = parseUrl(url)]
                        /\ UNCHANGED <<instances_, cells>>
                   ELSE /\ lastOp' = [Op("createInstance", i, CtxPre, "")
                                         EXCEPT !.arg = url, !.out = parseUrl(url)]
                        /\ instances_' = Append(instances_, i)
                        /\ cells' = [cells EXCEPT ![i] = Stored(c1)]
    /\ UNCHANGED <<context_, runtime_, globalWebSocket, initCalls, pc>>

\* WebSocketManager::pump() without a context: the early return.
pumpNoContext ==
    /\ pc = "idle"
    /\ ~context_
    /\ lastOp' = Op("pump", NULL, CtxPre, "")
    /\ UNCHANGED <<context_, runtime_, instances_, globalWebSocket, initCalls, cells, pc>>

\* WebSocketManager::pump() with a context enters lws_service().
pumpService ==
    /\ pc = "idle"
    /\ context_
    /\ pc' = "service"
    /\ lastOp' = Op("lws_service", NULL, CtxPre, "")
    /\ UNCHANGED <<context_, runtime_, instances_, globalWebSocket, initCalls, cells>>

\* lws_service() returns; pump() prunes the registry and returns.
pumpReturn ==
    /\ pc = "service"
    /\ pc' = "idle"
    /\ instances_' = cleanupExpired(instances_, cells)
    /\ lastOp' = Op("pump", NULL, CtxPre, "")
    /\ UNCHANGED <<context_, runtime_, globalWebSocket, initCalls, cells>>

\* WebSocketManager::shutdown(): deliver and msg are lws_context_destroy()'s
\* last callbacks.
shutdown(deliver, msg) ==
    /\ pc = "idle"
    /\ IF ~context_
       THEN /\ runtime_' = FALSE
            /\ instances_' = <<>>
            /\ UNCHANGED <<context_, globalWebSocket, cells>>
       ELSE /\ cells' = [i \in Ids |->
                           Stored(shutdownCell(cells[i], Registered(i), deliver, msg))]
            /\ context_' = FALSE
            /\ instances_' = <<>>
            /\ globalWebSocket' = IF runtime_ THEN FALSE ELSE globalWebSocket
            /\ runtime_' = FALSE
    /\ lastOp' = Op("shutdown", NULL, CtxPre, "")
    /\ UNCHANGED <<initCalls, pc>>

\* ---- scripted code, through the host object of Instance i

ScriptCanCall(i) == pc = "idle" /\ cells[i].exists /\ cells[i].alive

hostSend(i, value) ==
    /\ ScriptCanCall(i)
    /\ Len(cells[i].log.accepted) < MaxSend
    /\ value \in SendValues(cells[i].log.accepted)
    /\ LET r == send(cells[i], value)
       IN  /\ cells' = [cells EXCEPT ![i] = Stored(r)]
           /\ lastOp' = Op("send", i, cells[i].inst.state_, r.ret)
    /\ UNCHANGED <<context_, runtime_, instances_, globalWebSocket, initCalls, pc>>

hostClose(i, args) ==
    /\ ScriptCanCall(i)
    /\ \E code \in hostCloseCodes(args) :
         LET r == close(cells[i], code, hostCloseReason(args))
             r1 == IF cells[i].inst.state_ \in {Closing, Closed}
                   THEN r
                   ELSE [r EXCEPT !.log.closeArgs = args]
         IN  /\ cells' = [cells EXCEPT ![i] = Stored(r1)]
             /\ lastOp' = Op("close", i, cells[i].inst.state_, r.ret)
    /\ UNCHANGED <<context_, runtime_, instances_, globalWebSocket, initCalls, pc>>

\* WebSocketHostObject::set for one of the four handler properties.
hostSet(i, slot, value) ==
    /\ ScriptCanCall(i)
    /\ LET r == setHandler(cells[i], slot, value)
       IN  /\ cells' = [cells EXCEPT ![i] = Stored(r)]
           /\ lastOp' = Op("set", i, cells[i].inst.state_, r.ret)
    /\ UNCHANGED <<context_, runtime_, instances_, globalWebSocket, initCalls, pc>>

\* ---- lws_service(): one callback of the connection of cell i

\* What one callback makes of cell c: lws has moved the connection to state t
\* and calls websocketCallback with reason and in.
CallbackCell(c, t, reason, in) ==
    LET c0 == [c EXCEPT !.conn.tstate = t, !.log.writes = 0]
        c1 == IF reason = "WS_PEER_INITIATED_CLOSE"
              THEN [c0 EXCEPT !.log.peerClose = [in |-> in, pre |-> c0.inst.state_]]
              ELSE c0
        c2 == IF reason = "CLIENT_WRITEABLE"
              THEN [c1 EXCEPT !.conn.writable = FALSE]
              ELSE IF reason = "CLIENT_ESTABLISHED"
              THEN [c1 EXCEPT !.conn.writable = @ /\ in]
              ELSE c1
    IN  websocketCallback(c2, reason, in)

\* lws calls websocketCallback for connection i, which it has moved to state t;
\* ret is what the callback lets escape into lws_service().
Callback(i, t, reason, in) ==
    /\ pc = "service"
    /\ LET r == CallbackCell(cells[i], t, reason, in)
       IN  /\ cells' = [cells EXCEPT ![i] = Stored(r)]
           /\ lastOp' = Op(reason, i, cells[i].inst.state_, r.ret)
    /\ UNCHANGED <<context_, runtime_, instances_, globalWebSocket, initCalls, pc>>

\* keep is whether lws still holds a writable request that was made while the
\* connection was being set up.
lwsEstablished(i, keep) ==
    /\ cells[i].conn.tstate = TConnecting
    /\ Callback(i, TEstablished, "CLIENT_ESTABLISHED", keep)

lwsConnectionError(i, msg) ==
    /\ cells[i].conn.tstate = TConnecting
    /\ Callback(i, TGone, "CLIENT_CONNECTION_ERROR", msg)

lwsReceive(i, data) ==
    /\ cells[i].conn.tstate = TEstablished
    /\ Callback(i, TEstablished, "CLIENT_RECEIVE", data)

\* The writable callback lws was asked for; the request is consumed.
lwsWriteable(i, ok) ==
    /\ cells[i].conn.tstate = TEstablished
    /\ cells[i].conn.writable
    /\ Callback(i, TEstablished, "CLIENT_WRITEABLE", ok)

lwsPeerClose(i, pcl) ==
    /\ cells[i].conn.tstate = TEstablished
    /\ Callback(i, TPeerClosing, "WS_PEER_INITIATED_CLOSE", pcl)

lwsClosed(i) ==
    /\ cells[i].conn.tstate \in {TEstablished, TPeerClosing, TFailed}
    /\ Callback(i, TGone, "CLIENT_CLOSED", "")

Next ==
    \/ \E created \in BOOLEAN : initialize(created)
    \/ \E url \in Urls, connectOk \in BOOLEAN : createInstance(url, connectOk, SpecIds)
    \/ pumpNoContext
    \/ pumpService
    \/ pumpReturn
    \/ \E deliver \in BOOLEAN, msg \in ErrorMessages : shutdown(deliver, msg)
    \/ \E i \in Ids, value \in Payloads \cup {NonString} : hostSend(i, value)
    \/ \E i \in Ids, args \in CloseArgs : hostClose(i, args)
    \/ \E i \in Ids, slot \in CoreSlots, value \in SlotValues : hostSet(i, slot, value)
    \/ \E i \in Ids, keep \in BOOLEAN : lwsEstablished(i, keep)
    \/ \E i \in Ids, msg \in ErrorMessages : lwsConnectionError(i, msg)
    \/ \E i \in Ids, data \in Messages : lwsReceive(i, data)
    \/ \E i \in Ids, ok \in BOOLEAN : lwsWriteable(i, ok)
    \/ \E i \in Ids, pcl \in PeerCloses : lwsPeerClose(i, pcl)
    \/ \E i \in Ids : lwsClosed(i)

Spec == Init /\ [][Next]_vars

\* ---- close codes beyond 16 bits

NextWide ==
    \/ Next
    \/ \E i \in Ids, args \in WideCloseArgs : hostClose(i, args)

\* The subsystem with scripted code that also passes such numbers to close().
SpecWide == Init /\ [][NextWide]_vars

\* ---- handlers that throw

NextThrow ==
    \/ Next
    \/ \E i \in Ids, slot \in CoreSlots, value \in Throwers : hostSet(i, slot, value)

\* The subsystem with scripted code that also assigns handlers that throw.
SpecThrow == Init /\ [][NextThrow]_vars

\* ---- destruction of an Instance

\* The host object of Instance i, its only strong holder, is collected and the
\* Instance is destroyed. WebSocketInstance has no destructor: the lws connection
\* stays as it is and keeps the Instance's address as its opaque user data.
destroyInstance(i) ==
    /\ pc = "idle"
    /\ cells[i].exists
    /\ cells[i].alive
    /\ cells' = [cells EXCEPT ![i].alive = FALSE]
    /\ lastOp' = Op("destroy", i, cells[i].inst.state_, "")
    /\ UNCHANGED <<context_, runtime_, instances_, globalWebSocket, initCalls, pc>>

\* websocketCallback for a connection whose user data points to a destroyed
\* Instance calls a method on freed memory. The lws actions above are the
\* outcome in which the memory still holds the Instance; this is the outcome in
\* which the process stops.
lwsUseAfterFree(i) ==
    /\ pc = "service"
    /\ cells[i].exists
    /\ ~cells[i].alive
    /\ cells[i].conn.userData # NULL
    /\ cells[i].conn.tstate \in LiveT
    /\ pc' = "crashed"
    /\ lastOp' = Op("crash", i, cells[i].inst.state_, "")
    /\ UNCHANGED <<context_, runtime_, instances_, globalWebSocket, initCalls, cells>>

NextGC ==
    \/ Next
    \/ \E i \in Ids : destroyInstance(i)
    \/ \E i \in Ids : lwsUseAfterFree(i)

\* The subsystem with Instances that scripted code drops.
SpecGC == Init /\ [][NextGC]_vars

\* ---- two Instances

\* The operations of Next that matter to the registry, with the constructor
\* handing out both identities and scripted code dropping Instances.
NextPair ==
    \/ \E created \in BOOLEAN : initialize(created)
    \/ \E url \in Urls, connectOk \in BOOLEAN : createInstance(url, connectOk, Ids)
    \/ pumpService
    \/ pumpReturn
    \/ \E deliver \in BOOLEAN, msg \in ErrorMessages : shutdown(deliver, msg)
    \/ \E i \in Ids, args \in CloseArgs : hostClose(i, args)
    \/ \E i \in Ids, keep \in BOOLEAN : lwsEstablished(i, keep)
    \/ \E i \in Ids : lwsClosed(i)
    \/ \E i \in Ids : destroyInstance(i)

SpecPair == Init /\ [][NextPair]_vars

\* ---- the URL parser

\* The constructor called with each URL of ParseUrls.
NextParse ==
    \/ \E created \in BOOLEAN : initialize(created)
    \/ \E url \in ParseUrls, connectOk \in BOOLEAN : createInstance(url, connectOk, SpecIds)

SpecParse == Init /\ [][NextParse]_vars

\* ---- main() of examples/skia/core.cpp, the driving application

\* initializeWebSocketSupport(), once, before any script of the application runs.
mainInitialize(created) ==
    /\ initCalls = 0
    /\ initialize(created)

\* pumpWebSocketSupport(), the third statement of each iteration of the frame loop.
mainPump ==
    /\ initCalls > 0
    /\ \/ pumpNoContext
       \/ pumpService

\* glfwWindowShouldClose() ends the frame loop: on_exit is called, the runtime is
\* torn down and the process exits.
mainExit ==
    /\ pc = "idle"
    /\ initCalls > 0
    /\ pc' = "exited"
    /\ lastOp' = Op("exit", NULL, CtxPre, "")
    /\ UNCHANGED <<context_, runtime_, instances_, globalWebSocket, initCalls, cells>>

\* What runs under main(): the scripts it calls each frame use the constructor
\* and the host objects, and lws_service() makes its callbacks.
NextMain ==
    \/ \E created \in BOOLEAN : mainInitialize(created)
    \/ mainPump
    \/ pumpReturn
    \/ mainExit
    \/ \E url \in Urls, connectOk \in BOOLEAN : createInstance(url, connectOk, SpecIds)
    \/ \E i \in Ids, value \in Payloads \cup {NonString} : hostSend(i, value)
    \/ \E i \in Ids, args \in CloseArgs : hostClose(i, args)
    \/ \E i \in Ids, slot \in CoreSlots, value \in SlotValues : hostSet(i, slot, value)
    \/ \E i \in Ids, keep \in BOOLEAN : lwsEstablished(i, keep)
    \/ \E i \in Ids, msg \in ErrorMessages : lwsConnectionError(i, msg)
    \/ \E i \in Ids, data \in Messages : lwsReceive(i, data)
    \/ \E i \in Ids, ok \in BOOLEAN : lwsWriteable(i, ok)
    \/ \E i \in Ids, pcl \in PeerCloses : lwsPeerClose(i, pcl)
    \/ \E i \in Ids : lwsClosed(i)

SpecMain == Init /\ [][NextMain]_vars

\* ---- a driving application that keeps pumping and a transport that makes
\* the writable callbacks it was asked for

SpecFair ==
    /\ Spec
    /\ SF_vars(pumpService)
    /\ SF_vars(\E i \in Ids, ok \in BOOLEAN : lwsWriteable(i, ok))

\* ---- all four handler slots

MessageEvents(evs) == SelectSeq(evs, LAMBDA e : e.type = "message")

\* One Instance whose four slots scripted code assigns, with two functions, and
\* the transport events that reach them.
NextSlots ==
    \/ initialize(TRUE)
    \/ \E url \in Urls : createInstance(url, TRUE, SpecIds)
    \/ pumpService
    \/ pumpReturn
    \/ \E i \in Ids, slot \in Slots, value \in SlotValues \cup OtherHandlers :
          hostSet(i, slot, value)
    \/ \E i \in Ids, keep \in BOOLEAN : lwsEstablished(i, keep)
    \/ \E i \in Ids, msg \in ErrorMessages : lwsConnectionError(i, msg)
    \/ \E i \in Ids, data \in Messages :
          /\ Len(MessageEvents(cells[i].log.events)) < MaxMessages
          /\ lwsReceive(i, data)
    \/ \E i \in Ids, pcl \in PeerCloses : lwsPeerClose(i, pcl)
    \/ \E i \in Ids : lwsClosed(i)

SpecSlots == Init /\ [][NextSlots]_vars

\* ---- reports after a failed write

\* websocketCallback returns 0 after a failed lws_write(), so lws is not told to
\* close the connection: until it closes it on its own it still reports what the
\* peer had sent before the failure.
lwsLateReceive(i, data) ==
    /\ cells[i].conn.tstate = TFailed
    /\ Callback(i, TFailed, "CLIENT_RECEIVE", data)

lwsLatePeerClose(i, pcl) ==
    /\ cells[i].conn.tstate = TFailed
    /\ Callback(i, TFailed, "WS_PEER_INITIATED_CLOSE", pcl)

NextLate ==
    \/ initialize(TRUE)
    \/ \E url \in Urls : createInstance(url, TRUE, SpecIds)
    \/ pumpService
    \/ pumpReturn
    \/ \E i \in Ids, value \in Payloads : hostSend(i, value)
    \/ \E i \in Ids, args \in CloseArgs : hostClose(i, args)
    \/ \E i \in Ids, slot \in Slots \ {"onOpen_"}, value \in Handlers : hostSet(i, slot, value)
    \/ \E i \in Ids, keep \in BOOLEAN : lwsEstablished(i, keep)
    \/ \E i \in Ids, msg \in ErrorMessages : lwsConnectionError(i, msg)
    \/ \E i \in Ids, ok \in BOOLEAN : lwsWriteable(i, ok)
    \/ \E i \in Ids, pcl \in PeerCloses : lwsPeerClose(i, pcl)
    \/ \E i \in Ids : lwsClosed(i)
    \/ \E i \in Ids, data \in Messages :
          /\ Len(MessageEvents(cells[i].log.events)) < MaxMessages
          /\ lwsLateReceive(i, data)
    \/ \E i \in Ids, pcl \in PeerCloses : lwsLatePeerClose(i, pcl)

\* The subsystem on a transport that keeps reporting after a failed write.
SpecLate == Init /\ [][NextLate]_vars

\* ---------------------------------------------------------- properties

IsPrefix(p, q) == Len(p) <= Len(q) /\ SubSeq(q, 1, Len(p)) = p

CloseEvents(evs) == SelectSeq(evs, LAMBDA e : e.type = "close")

\* The step is the operation op on Instance i.
IsStep(op, i) == lastOp'.op = op /\ lastOp'.id = i

\* The code a close event reports for a local close(code, ...).
ClaimedCode(code) == IF code >= 1000 /\ code <= 4999 THEN code ELSE 1000

\* The code of a peer's close frame, 1005 when the frame carries none.
PeerCode(in) == IF in.len >= 2 THEN in.code ELSE 1005

\* C1: readyState never moves backwards in the order Connecting < Open <
\* Closing < Closed, whatever the operation or the transport event.
C1_ReadyStateMonotonic ==
    [][\A i \in Ids :
         cells[i].exists =>
            readyStateAsInt(cells'[i].inst.state_) >= readyStateAsInt(cells[i].inst.state_)]_vars

\* C2: the payloads written to the transport are a prefix of the payloads
\* send() accepted, in the same order, and the queue holds the rest.
C2_WrittenPrefixOfAccepted ==
    \A i \in Ids :
        cells[i].exists =>
            /\ IsPrefix(cells[i].log.written, cells[i].log.accepted)
            /\ cells[i].log.accepted = cells[i].log.written \o cells[i].inst.outbound_

\* Two payloads accepted while Connecting have both been written, in order.
C2_Witness ==
    \E i \in Ids :
        /\ cells[i].log.early = 2
        /\ cells[i].log.written = <<"a", "b">>
        /\ cells[i].inst.state_ = Open

\* C3: one writable callback makes at most one lws_write() call and removes at
\* most one frame: the head when the write succeeds, none when the queue is
\* empty or the write fails.
C3_OneFramePerWritable ==
    [][\A i \in Ids :
         IsStep("CLIENT_WRITEABLE", i) =>
            LET c == cells[i]
                d == cells'[i]
            IN  /\ d.log.writes <= 1
                /\ c.inst.outbound_ = <<>> => d.log.writes = 0
                /\ IF d.log.written # c.log.written
                   THEN /\ d.log.writes = 1
                        /\ d.log.written = Append(c.log.written, Head(c.inst.outbound_))
                        /\ d.inst.outbound_ = Tail(c.inst.outbound_)
                   ELSE d.inst.outbound_ = c.inst.outbound_]_vars

\* A writable callback has written one frame and left one queued.
C3_Witness ==
    \E i \in Ids :
        /\ lastOp.op = "CLIENT_WRITEABLE"
        /\ lastOp.id = i
        /\ cells[i].log.writes = 1
        /\ cells[i].log.written = <<"a">>
        /\ cells[i].inst.outbound_ = <<"b">>

\* The step reports a transport error to Instance i: a connection error, or a
\* writable callback whose lws_write() failed.
IsErrorStep(i) ==
    \/ IsStep("CLIENT_CONNECTION_ERROR", i)
    \/ /\ IsStep("CLIENT_WRITEABLE", i)
       /\ cells'[i].log.writes = 1
       /\ cells'[i].log.written = cells[i].log.written

\* C4: a transport error for an Open Instance with an error and a close
\* handler invokes the error handler, then dispatches one close event with code
\* 1006, an empty reason and wasClean = false, and leaves the Instance Closed.
C4_ErrorThenClose1006Empty ==
    [][\A i \in Ids :
         ( /\ IsErrorStep(i)
           /\ cells[i].inst.state_ = Open
           /\ cells[i].inst.onError_ # NoHandler
           /\ cells[i].inst.onClose_ # NoHandler ) =>
            LET c == cells[i]
                d == cells'[i]
                n == Len(c.log.events)
            IN  /\ d.inst.state_ = Closed
                /\ Len(d.log.events) = n + 2
                /\ SubSeq(d.log.events, 1, n) = c.log.events
                /\ d.log.events[n + 1].type = "error"
                /\ d.log.events[n + 2] = CloseEvent(1006, "", FALSE)]_vars

\* C5: a peer-initiated close reported for a non-Closed Instance leaves it
\* Closing and dispatches nothing; the closed report that follows leaves it
\* Closed and, with a close handler, dispatches the one close event of the
\* Instance, carrying the peer's code and reason and wasClean = true.
C5_PeerCloseThenClosed ==
    [][\A i \in Ids :
         LET c == cells[i]
             d == cells'[i]
         IN  /\ ( IsStep("WS_PEER_INITIATED_CLOSE", i) /\ c.inst.state_ # Closed ) =>
                    /\ d.inst.state_ = Closing
                    /\ d.log.events = c.log.events
             /\ ( d.conn.tstate = TPeerClosing /\ d.log.peerClose.pre # Closed ) =>
                    d.inst.state_ = Closing
             /\ ( /\ IsStep("CLIENT_CLOSED", i)
                  /\ c.conn.tstate = TPeerClosing
                  /\ c.log.peerClose.pre # Closed ) =>
                    /\ d.inst.state_ = Closed
                    /\ IF c.inst.onClose_ = NoHandler
                       THEN d.log.events = c.log.events
                       ELSE /\ d.log.events =
                                 Append(c.log.events,
                                        CloseEvent(PeerCode(c.log.peerClose.in),
                                                   c.log.peerClose.in.reason, TRUE))
                            /\ Len(CloseEvents(d.log.events)) = 1]_vars

\* The peer closed with 1001 "bye", the transport reported closed, and the one
\* event of the Instance is close {1001, "bye", true}.
C5_Witness ==
    \E i \in Ids :
        /\ lastOp.op = "CLIENT_CLOSED"
        /\ lastOp.id = i
        /\ lastOp.pre = Closing
        /\ cells[i].inst.state_ = Closed
        /\ cells[i].inst.peerInitiatedClose_
        /\ cells[i].log.events = <<CloseEvent(1001, "bye", TRUE)>>

\* C6: close() on an Instance that is Closing or Closed changes nothing of the
\* Instance, its connection, its queue or its events, nor of the Manager.
C6_CloseIdempotent ==
    [][\A i \in Ids :
         ( IsStep("close", i) /\ cells[i].inst.state_ \in {Closing, Closed} ) =>
            /\ cells'[i] = cells[i]
            /\ UNCHANGED <<context_, runtime_, instances_, globalWebSocket>>]_vars

\* close(3001) took effect and a later close() met the Instance Closing: the
\* recorded code is still 3001 and no event has been dispatched.
C6_Witness ==
    \E i \in Ids :
        /\ lastOp.op = "close"
        /\ lastOp.id = i
        /\ lastOp.pre = Closing
        /\ cells[i].inst.state_ = Closing
        /\ cells[i].inst.closeCode_ = 3001
        /\ cells[i].inst.onClose_ # NoHandler
        /\ cells[i].log.events = <<>>

C8_CloseInitiatesProtocolClose ==
    [][\A i \in Ids :
         ( /\ IsStep("close", i)
           /\ cells[i].inst.state_ \in {Connecting, Open}
           /\ cells[i].inst.wsi_ # NULL
           /\ cells[i].conn.tstate \in LiveT ) =>
            cells'[i].conn.closeRequested]_vars

\* What createInstance() raises for a missing context.
ContextUnavailable ==
    { "runtime_error: WebSocket runtime is not initialized",
      "JSError: WebSocket context unavailable" }

\* C9: pump() and createInstance() called without a transport context raise
\* ContextUnavailable.
C9_FailFastWithoutContext ==
    ( lastOp.op \in {"pump", "createInstance"} /\ lastOp.pre = "no context" ) =>
        lastOp.ret \in ContextUnavailable

\* C10: an Instance holds a connection handle only while that connection is
\* live in the transport.
C10_HandleOnlyWhileLive ==
    \A i \in Ids :
        ( cells[i].exists /\ cells[i].inst.wsi_ # NULL ) =>
            cells[cells[i].inst.wsi_].conn.tstate \in LiveT

\* The transport events websocketCallback can route to an Instance.
CallbackOps ==
    { "CLIENT_ESTABLISHED", "CLIENT_RECEIVE", "CLIENT_WRITEABLE",
      "CLIENT_CONNECTION_ERROR", "CLIENT_CLOSED", "WS_PEER_INITIATED_CLOSE" }

\* C11: a transport callback for a connection whose Instance has been destroyed
\* is detected and ignored: no method of the destroyed Instance runs, so its
\* fields and its events stay as they were and the process goes on.
C11_StaleCallbackIgnored ==
    [][\A i \in Ids :
         ( /\ pc = "service"
           /\ cells[i].exists
           /\ ~cells[i].alive
           /\ lastOp'.id = i
           /\ lastOp'.op \in CallbackOps \cup {"crash"} ) =>
            /\ pc' # "crashed"
            /\ cells'[i].inst = cells[i].inst
            /\ cells'[i].log.events = cells[i].log.events]_vars


\* What lws passes as in with each callback reason.
CallbackInputs(reason) ==
    CASE reason = "CLIENT_RECEIVE" -> Messages
      [] reason = "CLIENT_WRITEABLE" -> BOOLEAN
      [] reason = "CLIENT_ESTABLISHED" -> BOOLEAN
      [] reason = "CLIENT_CONNECTION_ERROR" -> ErrorMessages
      [] reason = "WS_PEER_INITIATED_CLOSE" -> PeerCloses
      [] OTHER -> {""}

TStates == {TNone, TConnecting, TEstablished, TPeerClosing, TFailed, TGone}

\* Cell c with each handler that throws replaced by one that returns.
Returning(c) ==
    [c EXCEPT !.inst.onOpen_ = IF @ \in Throwers THEN "f" ELSE @,
              !.inst.onMessage_ = IF @ \in Throwers THEN "f" ELSE @,
              !.inst.onClose_ = IF @ \in Throwers THEN "f" ELSE @,
              !.inst.onError_ = IF @ \in Throwers THEN "f" ELSE @,
              !.log.calls = [k \in DOMAIN @ |-> IF @[k] \in Throwers THEN "f" ELSE @[k]],
              !.log.caught = 0]

\* C12: whatever the handlers of an Instance do, a transport callback lets no
\* exception escape, lws_service() goes on, and the callback leaves the Instance,
\* its connection and the events it dispatched as it would with handlers that
\* return.
C12_HandlerExceptionContained ==
    [][\A i \in Ids :
         ( pc = "service" /\ lastOp'.id = i /\ lastOp'.op \in CallbackOps ) =>
            /\ lastOp'.ret = ""
            /\ pc' = "service"
            /\ \E t \in TStates, in \in CallbackInputs(lastOp'.op) :
                 /\ cells'[i] = Stored(CallbackCell(cells[i], t, lastOp'.op, in))
                 /\ Returning(cells'[i]) =
                        Stored(CallbackCell(Returning(cells[i]), t, lastOp'.op, in))]_vars

\* The error handler threw while a connection error was reported, and the close
\* event of the same callback was still dispatched.
C12_Witness ==
    \E i \in Ids :
        /\ pc = "service"
        /\ lastOp.op = "CLIENT_CONNECTION_ERROR"
        /\ lastOp.id = i
        /\ cells[i].inst.onError_ \in Throwers
        /\ cells[i].inst.onClose_ \in Handlers
        /\ cells[i].log.caught = 1
        /\ cells[i].inst.state_ = Closed
        /\ cells[i].log.events =
              <<ErrorEvent("refused"), CloseEvent(1006, "refused", FALSE)>>


\* C13: send() on a Closing or Closed Instance, and send() of a value that is
\* not a string in any state, raises to the caller and leaves the Instance, its
\* queue, its readyState and the writable request of its connection unchanged.
C13_SendRejected ==
    [][\A i \in Ids :
         LET c == cells[i]
             d == cells'[i]
         IN  /\ ( IsStep("send", i) /\ c.inst.state_ \in {Closing, Closed} ) =>
                    /\ lastOp'.ret # ""
                    /\ d = c
             /\ ( IsStep("send", i) /\ d = Stored(send(c, NonString)) ) =>
                    /\ lastOp'.ret # ""
                    /\ d.inst.outbound_ = c.inst.outbound_
                    /\ d.inst.state_ = c.inst.state_
                    /\ d.conn.writable = c.conn.writable
             /\ c.exists => send(c, NonString).ret # ""]_vars

\* send("b") has just been refused on a Closing Instance that still queues "a"
\* and whose connection has no writable request pending.
C13_Witness ==
    \E i \in Ids :
        /\ lastOp.op = "send"
        /\ lastOp.id = i
        /\ lastOp.pre = Closing
        /\ lastOp.ret = "JSError: WebSocket is not open"
        /\ cells[i].inst.state_ = Closing
        /\ cells[i].inst.outbound_ = <<"a">>
        /\ ~cells[i].conn.writable

\* C14: send() of a string on a Connecting or Open Instance returns normally,
\* appends that one payload at the tail of the queue, writes nothing to the
\* transport, dispatches no event and leaves readyState as it was.
C14_SendEnqueues ==
    [][\A i \in Ids :
         LET c == cells[i]
             d == cells'[i]
         IN  ( IsStep("send", i) /\ c.inst.state_ \in {Connecting, Open} ) =>
                \E v \in SendValues(c.log.accepted) :
                    /\ d = Stored(send(c, v))
                    /\ v \in Payloads =>
                          /\ lastOp'.ret = ""
                          /\ d.inst.outbound_ = Append(c.inst.outbound_, v)
                          /\ d.inst = [c.inst EXCEPT !.outbound_ = d.inst.outbound_]
                          /\ d.log.written = c.log.written
                          /\ d.log.writes = c.log.writes
                          /\ d.log.events = c.log.events
                          /\ d.conn.tstate = c.conn.tstate]_vars

\* send("b") has just returned on an Open Instance on which "a" was written and "b" is the only frame queued.
C14_Witness ==
    \E i \in Ids :
        /\ lastOp.op = "send"
        /\ lastOp.id = i
        /\ lastOp.pre = Open
        /\ lastOp.ret = ""
        /\ cells[i].inst.state_ = Open
        /\ cells[i].log.written = <<"a">>
        /\ cells[i].inst.outbound_ = <<"b">>
        /\ cells[i].conn.writable


\* C15: close(code, ...) through the host object on a Connecting or Open
\* Instance records the code itself when it is in [1000, 4999] and 1000
\* otherwise, and the closed report of that local close dispatches the close
\* event with that code.
C15_CloseCodeClamped ==
    [][\A i \in Ids :
         LET c == cells[i]
             d == cells'[i]
         IN  /\ ( /\ IsStep("close", i)
                  /\ c.inst.state_ \in {Connecting, Open}
                  /\ d.log.closeArgs.count >= 1 ) =>
                    d.inst.closeCode_ = ClaimedCode(d.log.closeArgs.code)
             /\ ( /\ IsStep("CLIENT_CLOSED", i)
                  /\ c.inst.state_ = Closing
                  /\ ~c.inst.peerInitiatedClose_
                  /\ c.log.closeArgs.count >= 1
                  /\ c.inst.onClose_ # NoHandler ) =>
                    /\ Len(d.log.events) = Len(c.log.events) + 1
                    /\ d.log.events[Len(d.log.events)].code =
                          ClaimedCode(c.log.closeArgs.code)]_vars


\* C16: a handler is invoked only by a transport callback inside pump(), or by
\* the close() of an Instance that has no connection handle; no other step
\* dispatches an event.
C16_HandlersOnlyInsidePump ==
    [][\A i \in Ids :
         cells'[i].log.events # cells[i].log.events =>
            \/ pc = "service" /\ lastOp'.op \in CallbackOps /\ lastOp'.id = i
            \/ IsStep("close", i) /\ cells[i].inst.wsi_ = NULL]_vars


\* C17: createInstance() returns the Instance Connecting with no event
\* dispatched, and a Connecting Instance leaves that state only in a transport
\* callback inside pump(), in a close() on it, or in shutdown(): send(), handler
\* assignments and pump() calls without a report for it leave it Connecting.
C17_ConnectingUntilEventOrClose ==
    [][\A i \in Ids :
         LET c == cells[i]
             d == cells'[i]
         IN  /\ IsStep("createInstance", i) =>
                    /\ d.inst.state_ = Connecting
                    /\ d.log.events = <<>>
             /\ ( c.exists /\ c.inst.state_ = Connecting /\ d.inst.state_ # Connecting ) =>
                    \/ pc = "service" /\ lastOp'.op \in CallbackOps /\ lastOp'.id = i
                    \/ IsStep("close", i)
                    \/ lastOp'.op = "shutdown"
             /\ ( /\ c.exists
                  /\ c.inst.state_ = Connecting
                  /\ lastOp'.op \in {"send", "set", "lws_service", "pump"} ) =>
                    d.inst.state_ = Connecting]_vars

\* A pump() has returned without a report for an Instance that scripted code
\* gave two payloads and a close handler: it is still Connecting, with no event.
C17_Witness ==
    \E i \in Ids :
        /\ lastOp.op = "pump"
        /\ lastOp.pre = "context"
        /\ cells[i].inst.state_ = Connecting
        /\ cells[i].conn.tstate = TConnecting
        /\ cells[i].log.early = 2
        /\ cells[i].inst.onClose_ # NoHandler
        /\ cells[i].log.events = <<>>


\* The URLs of Urls that are malformed ("http://h", "ws://:8") and the one with
\* the wss scheme.
MalformedUrls ==
    { <<"h","t","t","p",":","/","/","h">>, <<"w","s",":","/","/",":","8">> }
SecureUrls == { <<"w","s","s",":","/","/","h">> }

\* What createInstance() raises when the transport returns no connection.
TransportError == "JSError: Failed to initiate WebSocket connection"

\* C18: createInstance() raises to its caller for a malformed URL and for a
\* wss:// URL, and whenever it raises (for these, or because the transport
\* returned no connection) it registers nothing: the registry and every
\* existing Instance are as before.
C18_CreateFailureRegistersNothing ==
    [][lastOp'.op = "createInstance" =>
         /\ lastOp'.arg \in MalformedUrls \cup SecureUrls => lastOp'.ret # ""
         /\ lastOp'.ret # "" =>
               /\ lastOp'.id = NULL
               /\ instances_' = instances_
               /\ cells' = cells
         /\ lastOp'.ret = "" =>
               /\ instances_' = Append(instances_, lastOp'.id)
               /\ \A j \in Ids : j # lastOp'.id => cells'[j] = cells[j]]_vars

\* createInstance() has just failed to initiate a connection while another
\* Instance is registered and Open.
C18_Witness ==
    /\ lastOp.op = "createInstance"
    /\ lastOp.ret = TransportError
    /\ instances_ = <<1>>
    /\ cells[1].inst.state_ = Open
    /\ ~cells[2].exists


\* C19: shutdown() called with a context leaves no context, an empty registry
\* and no WebSocket constructor on the global object; every registered Instance
\* that is alive is Closing or Closed afterwards, and those it met Connecting or
\* Open carry the forced close, code 1001 and reason "runtime shutdown".
C19_ShutdownClosesEverything ==
    [][( lastOp'.op = "shutdown" /\ context_ ) =>
         /\ ~context_'
         /\ ~runtime_'
         /\ instances_' = <<>>
         /\ ~globalWebSocket'
         /\ \A i \in Ids :
              ( Registered(i) /\ cells[i].alive ) =>
                 /\ cells'[i].inst.state_ \in {Closing, Closed}
                 /\ cells[i].inst.state_ \in {Connecting, Open} =>
                       /\ cells'[i].inst.closeCode_ = 1001
                       /\ cells'[i].inst.closeReason_ = "runtime shutdown"
                       /\ cells'[i].log.localClose =
                             [code |-> 1001, reason |-> "runtime shutdown"]]_vars

\* shutdown() has just met two registered Instances, one Open and one
\* Connecting, and closed both; lws made the last callback of each connection.
C19_Witness ==
    /\ lastOp.op = "shutdown"
    /\ lastOp.pre = "context"
    /\ ~context_
    /\ instances_ = <<>>
    /\ \A i \in Ids :
         /\ cells[i].alive
         /\ cells[i].inst.closeCode_ = 1001
         /\ cells[i].inst.closeReason_ = "runtime shutdown"
    /\ cells[1].inst.state_ = Closed
    /\ cells[1].inst.wsi_ = NULL
    /\ cells[2].inst.state_ = Closed
    /\ cells[2].inst.wsi_ # NULL


\* A number as the claim reads it: digits only, after at most one sign.
Unsigned(str) == IF str # <<>> /\ Head(str) \in {"-", "+"} THEN Tail(str) ELSE str
IsNumber(str) ==
    /\ Unsigned(str) # <<>>
    /\ \A k \in 1..Len(Unsigned(str)) : IsDigit(Unsigned(str)[k])

\* The value of the digits of str after acc; values beyond kIntMax, which the
\* parser never returns, all count as kIntMax.
RECURSIVE DecimalValue(_, _)
DecimalValue(str, acc) ==
    IF str = <<>>
    THEN acc
    ELSE IF acc > (kIntMax - DigitValue(Head(str))) \div 10
    THEN kIntMax
    ELSE DecimalValue(Tail(str), acc * 10 + DigitValue(Head(str)))

NumberValue(str) ==
    IF Head(str) = "-"
    THEN 0 - DecimalValue(Unsigned(str), 0)
    ELSE DecimalValue(Unsigned(str), 0)

\* What the claim says parse(url) returns.
ClaimedParse(url) ==
    LET ws == <<"w", "s", ":", "/", "/">>
        wss == <<"w", "s", "s", ":", "/", "/">>
        isWs == StartsWith(url, ws)
        isWss == StartsWith(url, wss)
        rest == IF isWs THEN Substr(url, 6) ELSE Substr(url, 7)
        slash == Find(rest, "/")
        authority == IF slash = 0 THEN rest ELSE SubSeq(rest, 1, slash - 1)
        colon == RFind(authority, ":")
        host == IF colon = 0 THEN authority ELSE SubSeq(authority, 1, colon - 1)
        portText == IF colon = 0 THEN <<>> ELSE Substr(authority, colon + 1)
    IN  IF (~isWs /\ ~isWss) \/ host = <<>> \/ (colon # 0 /\ ~IsNumber(portText))
        THEN [ok |-> FALSE]
        ELSE [ok |-> TRUE,
              secure |-> isWss,
              address |-> host,
              port |-> IF colon # 0 THEN NumberValue(portText)
                       ELSE IF isWss THEN 443 ELSE 80,
              path |-> IF slash = 0 THEN <<"/">> ELSE Substr(rest, slash)]

\* C20: parseUrl fails exactly for a scheme other than ws:// and wss://, an
\* empty host, and a port text after the authority's last colon that is empty or
\* not a number; otherwise it returns the scheme's secure flag, the authority
\* before its last colon, the given or the default port, and the path from the
\* first slash after the authority, "/" without one.
C20_ParseUrlAsSpecified ==
    ( /\ lastOp.op = "createInstance"
      /\ lastOp.ret # "runtime_error: WebSocket runtime is not initialized" ) =>
        LET want == ClaimedParse(lastOp.arg)
            got == lastOp.out
        IN  /\ got.ok = want.ok
            /\ want.ok =>
                  /\ got.secure = want.secure
                  /\ got.address = want.address
                  /\ got.port = want.port
                  /\ got.path = want.path


\* C21: every ParsedUrl parseUrl returns has a non-empty address, a non-empty
\* path and a port in 0..65535.
C21_ParsedUrlWellFormed ==
    ( lastOp.op = "createInstance" /\ lastOp.out.ok ) =>
        /\ lastOp.out.address # <<>>
        /\ lastOp.out.path # <<>>
        /\ lastOp.out.port >= 0
        /\ lastOp.out.port < kUint16Modulus


\* C22: under main() no Instance exists before initialize() has run, pump() is
\* only called in the frame loop that follows it, and the process exits only
\* after shutdown() has run: at exit the Manager has no runtime and no context.
C22_DriverContract ==
    /\ initCalls = 0 => \A i \in Ids : ~cells[i].exists
    /\ lastOp.op \in {"pump", "lws_service"} => initCalls > 0
    /\ pc = "exited" => ~runtime_ /\ ~context_


\* Whenever an Instance is Open on an established connection with frames
\* queued, a writable callback is requested and pending.
C23_WritablePendingWhileQueued ==
    \A i \in Ids :
        ( /\ cells[i].exists
          /\ cells[i].inst.state_ = Open
          /\ cells[i].inst.wsi_ # NULL
          /\ cells[i].conn.tstate = TEstablished
          /\ cells[i].inst.outbound_ # <<>> ) =>
            cells[i].conn.writable

\* Two frames were queued while Connecting, lws kept no request from that time,
\* the connection is established and one frame has been written: the other is
\* queued with a writable callback pending.
C23_Witness ==
    \E i \in Ids :
        /\ lastOp.op = "CLIENT_WRITEABLE"
        /\ lastOp.id = i
        /\ cells[i].inst.state_ = Open
        /\ cells[i].log.early = 2
        /\ cells[i].log.written = <<"a">>
        /\ cells[i].inst.outbound_ = <<"b">>
        /\ cells[i].conn.writable


\* C23: with a driving application that keeps pumping and a transport that
\* makes the writable callbacks it was asked for, the request above is always
\* pending, and an Instance that is Open on an established connection with
\* frames queued gets its queue written out unless it leaves Open or loses the
\* connection first.
C23_QueuedFramesWritten ==
    /\ []C23_WritablePendingWhileQueued
    /\ \A i \in Ids :
         ( /\ cells[i].inst.state_ = Open
           /\ cells[i].conn.tstate = TEstablished
           /\ cells[i].inst.outbound_ # <<>> )
         ~> ( \/ cells[i].log.written = cells[i].log.accepted
              \/ cells[i].inst.state_ # Open
              \/ cells[i].conn.tstate # TEstablished )


\* C24: a writable callback that meets the Instance in a state other than Open
\* makes no lws_write() call and leaves the queue and the written frames as
\* they were.
C24_WriteOnlyWhileOpen ==
    [][\A i \in Ids :
         ( IsStep("CLIENT_WRITEABLE", i) /\ cells[i].inst.state_ # Open ) =>
            /\ cells'[i].log.writes = 0
            /\ cells'[i].log.written = cells[i].log.written
            /\ cells'[i].inst.outbound_ = cells[i].inst.outbound_]_vars


\* C25: a message report for a non-Closed Instance with a message handler
\* dispatches one message event carrying the reported payload, the empty one
\* included, and changes nothing of the Instance.
C25_MessageDispatched ==
    [][\A i \in Ids, data \in Messages :
         LET c == cells[i]
             d == cells'[i]
         IN  ( /\ IsStep("CLIENT_RECEIVE", i)
               /\ d = Stored(CallbackCell(c, TEstablished, "CLIENT_RECEIVE", data))
               /\ c.inst.state_ # Closed
               /\ c.inst.onMessage_ # NoHandler ) =>
                /\ d.log.events = Append(c.log.events, MessageEvent(data))
                /\ d.inst = c.inst]_vars


\* The slot whose handler an event of the given type is dispatched to.
SlotOf(type) ==
    CASE type = "open" -> "onOpen_"
      [] type = "message" -> "onMessage_"
      [] type = "close" -> "onClose_"
      [] type = "error" -> "onError_"

\* C26: each handler slot holds at most one handler. An assignment of a
\* function leaves exactly that function in the slot, null or undefined clears
\* it, any other value raises and leaves the slot as it was, and nothing else
\* of the Instance changes; every event is delivered to the handler its slot
\* holds when it is dispatched, and to no other.
C26_OneHandlerPerSlot ==
    [][\A i \in Ids :
         LET c == cells[i]
             d == cells'[i]
         IN  /\ \A slot \in Slots, value \in SlotValues \cup OtherHandlers :
                  ( /\ IsStep("set", i)
                    /\ d = Stored(setHandler(c, slot, value))
                    /\ lastOp'.ret = setHandler(c, slot, value).ret ) =>
                     /\ value \in Functions => d.inst[slot] = value /\ lastOp'.ret = ""
                     /\ value = Undefined => d.inst[slot] = NoHandler /\ lastOp'.ret = ""
                     /\ value = NotAFunction => d.inst[slot] = c.inst[slot] /\ lastOp'.ret # ""
                     /\ d.inst = [c.inst EXCEPT ![slot] = d.inst[slot]]
                     /\ d.conn = c.conn
                     /\ d.log = c.log
             /\ Len(d.log.calls) = Len(d.log.events)
             /\ IsPrefix(c.log.calls, d.log.calls)
             /\ \A k \in (Len(c.log.calls) + 1)..Len(d.log.calls) :
                  /\ c.inst[SlotOf(d.log.events[k].type)] # NoHandler
                  /\ d.log.calls[k] = c.inst[SlotOf(d.log.events[k].type)]]_vars

\* A second handler has replaced the first and received the later message.
C26_Witness ==
    \E i \in Ids :
        /\ Len(cells[i].log.events) >= 2
        /\ cells[i].log.events[1].type = "message"
        /\ cells[i].log.events[2].type = "message"
        /\ cells[i].log.calls[1] = "f"
        /\ cells[i].log.calls[2] = "g"
        /\ cells[i].inst.onMessage_ = NoHandler
        /\ lastOp.op = "set" /\ lastOp.ret # ""


\* How many registry entries refer to Instance i.
RefCount(refs, i) == Cardinality({k \in 1..Len(refs) : refs[k] = i})

\* C27: when pump() returns with a live context the registry refers to no
\* destroyed Instance, still refers (as often as before) to every live Instance
\* it referred to, and no Instance has changed.
C27_PumpPrunesRegistry ==
    [][( /\ pc = "service"
         /\ lastOp'.op = "pump"
         /\ lastOp'.pre = "context" ) =>
            /\ \A k \in 1..Len(instances_') : cells'[instances_'[k]].alive
            /\ \A i \in Ids :
                 /\ cells[i].alive => RefCount(instances_', i) = RefCount(instances_, i)
                 /\ ~cells[i].alive => RefCount(instances_', i) = 0
            /\ cells' = cells
            /\ context_']_vars

\* pump() has returned having pruned the reference to a destroyed Instance and
\* kept the one to a live Instance.
C27_Witness ==
    /\ lastOp.op = "pump"
    /\ lastOp.pre = "context"
    /\ Len(instances_) = 1
    /\ \E i \in Ids : cells[i].exists /\ ~cells[i].alive /\ ~Registered(i)
    /\ \E j \in Ids : cells[j].alive /\ Registered(j)


\* C28: at most one close event is ever dispatched for an Instance.
C28_AtMostOneCloseEvent ==
    \A i \in Ids : Len(CloseEvents(cells[i].log.events)) <= 1


\* Instance i is Closed and the events in evs were dispatched to it since.
NoEventAfterClosed(c, d) ==
    c.inst.state_ = Closed =>
        \A k \in (Len(c.log.events) + 1)..Len(d.log.events) :
            d.log.events[k].type \notin {"open", "message", "error"}

\* C29: once an Instance is Closed no open, message or error event is
\* dispatched for it, whatever the transport reports.
C29_CloseEventIsLast ==
    [][\A i \in Ids : NoEventAfterClosed(cells[i], cells'[i])]_vars


\* C30: once a peer's close is recorded, a local close() changes neither the
\* recorded code and reason nor the peerInitiated flag, and the close event
\* dispatched on the closed report carries the peer's code and reason and
\* wasClean = true.
C30_PeerCloseSurvivesLocalClose ==
    [][\A i \in Ids :
         LET c == cells[i]
             d == cells'[i]
             in == c.log.peerClose.in
         IN  /\ ( IsStep("close", i) /\ c.inst.peerInitiatedClose_ ) =>
                    /\ d.inst.peerInitiatedClose_
                    /\ d.inst.closeCode_ = PeerCode(in)
                    /\ d.inst.closeReason_ = in.reason
                    /\ d.inst.state_ = c.inst.state_
                    /\ d.log.events = c.log.events
             /\ ( /\ IsStep("CLIENT_CLOSED", i)
                  /\ c.inst.peerInitiatedClose_
                  /\ c.inst.state_ # Closed
                  /\ c.inst.onClose_ # NoHandler ) =>
                    d.log.events = Append(c.log.events, CloseEvent(PeerCode(in), in.reason, TRUE))]_vars

\* The peer closed with 1001 "bye" and close(3001) followed: the Instance is
\* still Closing with the peer's code and reason.
C30_Witness ==
    \E i \in Ids :
        /\ lastOp.op = "close"
        /\ lastOp.id = i
        /\ lastOp.pre = Closing
        /\ cells[i].conn.tstate = TPeerClosing
        /\ cells[i].inst.peerInitiatedClose_
        /\ cells[i].inst.closeCode_ = 1001
        /\ cells[i].inst.closeReason_ = "bye"
        /\ cells[i].inst.onClose_ # NoHandler

====
